---- MODULE Spec2Model ----
(***************************************************************************)
(* Model of AIService (backend/app/main.py): break_down_goal probes the    *)
(* candidate Gemini models in order, _try_model / _parse_ai_response turn  *)
(* one HTTP response into a breakdown, and _create_smart_tasks /           *)
(* _parse_timeframe build the fallback plan.                               *)
(*                                                                         *)
(* Python values are tagged records (JInt, JStr, JBool, JNull, JArr, JObj) *)
(* so that dynamically typed operations (dict lookup, iteration, +) can    *)
(* fail the way they do in Python.  A Python call evaluates to             *)
(* Ret(value) or Raise(exception name).  Text is a sequence of characters. *)
(***************************************************************************)
EXTENDS Integers, Sequences, FiniteSets, TLC

VARIABLES pc, goal, timeframe, idx, attempted, lastResponse, lastOutcome,
          budgetHours, outcome, fallbackCalls

vars == <<pc, goal, timeframe, idx, attempted, lastResponse, lastOutcome,
          budgetHours, outcome, fallbackCalls>>

\* ---------------------------------------------------------------- bounds
\* longest timeframe text, in whitespace-delimited tokens
MaxTokens == 2

\* ------------------------------------------------------- Python values
JInt(n) == [ty |-> "int", v |-> n]
JStr(s) == [ty |-> "str", s |-> s]
JBool(b) == [ty |-> "bool", b |-> b]
JNull == [ty |-> "null"]
JArr(items) == [ty |-> "arr", items |-> items]
JObj(f) == [ty |-> "obj", f |-> f]

Ret(v) == [ok |-> TRUE, val |-> v]
Raise(e) == [ok |-> FALSE, err |-> e]

Max(a, b) == IF a >= b THEN a ELSE b

\* ------------------------------------------------------- _parse_timeframe
\* The whitespace-delimited tokens a timeframe text is built from.
Tokens == {"2", "0", "90", "²", "Minutes", "hours", "days", "weeks", "month",
           "forever"}

\* the tokens of the timeframes break_down_goal is called with
CallTokens == {"2", "0", "²", "hours", "weeks"}

\* str.lower() on a token
Lower(tok) ==
    IF tok = "Minutes" THEN "minutes" ELSE tok

\* str.isdigit(): true of every character with the Unicode Digit property,
\* which includes the superscript two
IsDigit(tok) == tok \in {"2", "0", "90", "²"}

\* int(s): only decimal digits convert; any other digit raises ValueError
IntOf(tok) ==
    CASE tok = "2" -> Ret(2)
      [] tok = "0" -> Ret(0)
      [] tok = "90" -> Ret(90)
      [] OTHER -> Raise("ValueError")

\* kw in tok, for the (lower-case) unit keywords
Contains(tok, kw) ==
    \/ tok = "minutes" /\ kw = "minute"
    \/ tok = "hours" /\ kw = "hour"
    \/ tok = "days" /\ kw = "day"
    \/ tok = "weeks" /\ kw = "week"
    \/ tok = "month" /\ kw = "month"

\* A timeframe is None (present = FALSE) or a text given by its tokens; the
\* empty token sequence is the empty string.
NoTimeframe == [present |-> FALSE, toks |-> <<>>]
Text(toks) == [present |-> TRUE, toks |-> toks]

RECURSIVE SeqsUpTo(_, _)
SeqsUpTo(S, n) ==
    IF n = 0 THEN {<<>>}
    ELSE LET shorter == SeqsUpTo(S, n - 1)
         IN shorter \cup {Append(s, t) : s \in shorter, t \in S}

TimeframesOver(S) == {NoTimeframe} \cup {Text(toks) : toks \in SeqsUpTo(S, MaxTokens)}

Timeframes == TimeframesOver(Tokens)
CallTimeframes == TimeframesOver(CallTokens)

\* 'kw' in timeframe: a keyword has no whitespace, so it occurs in the text
\* iff it occurs in one of its tokens
InText(kw, toks) == \E i \in 1..Len(toks) : Contains(toks[i], kw)

\* numbers = [int(s) for s in timeframe.split() if s.isdigit()]: the
\* comprehension converts every digit token, so one failing int() raises
\* whatever its position
ParseTimeframe(tf) ==
    IF ~tf.present \/ tf.toks = <<>> THEN Ret(8)
    ELSE LET toks == [i \in 1..Len(tf.toks) |-> Lower(tf.toks[i])]
             digits == SelectSeq(toks, IsDigit)
         IN IF \E i \in 1..Len(digits) : ~IntOf(digits[i]).ok
            THEN Raise("ValueError")
            ELSE LET number == IF digits # <<>> THEN IntOf(digits[1]).val ELSE 1
                 IN IF InText("minute", toks) THEN Ret(Max(1, number \div 60))
                    ELSE IF InText("hour", toks) THEN Ret(number)
                    ELSE IF InText("day", toks) THEN Ret(number * 8)
                    ELSE IF InText("week", toks) THEN Ret(number * 40)
                    ELSE IF InText("month", toks) THEN Ret(number * 160)
                    ELSE Ret(8)

\* ------------------------------------------------------ _create_smart_tasks
Task(id, title, description, hours, priority) ==
    [id |-> id, title |-> title, description |-> description,
     estimated_hours |-> hours, priority |-> priority, status |-> "pending"]

CreateSmartTasks(g, tf) ==
    LET budget == ParseTimeframe(tf)
    IN IF ~budget.ok THEN budget
       ELSE LET total_hours == budget.val
            IN Ret([reasoning |-> JStr("Smart task breakdown for '" \o g \o "' (Gemini API unavailable)"),
                    tasks |-> <<
                      Task("1", JStr("Research and plan " \o g),
                           JStr("Initial research and planning phase"),
                           JInt(Max(1, total_hours \div 4)), JStr("high")),
                      Task("2", JStr("Practice core skills for " \o g),
                           JStr("Hands-on practice and skill development"),
                           JInt(Max(1, total_hours \div 2)), JStr("medium")),
                      Task("3", JStr("Apply and refine " \o g),
                           JStr("Practical application and improvement"),
                           JInt(Max(1, total_hours \div 4)), JStr("medium")) >>,
                    total_estimated_hours |-> JInt(total_hours)])

\* ------------------------------------------------------------ model text
\* Raw model output is a sequence of characters.  The characters are the
\* backtick (written Backtick), the letters of the fence tag, two kinds of whitespace, a
\* character "x" of prose, and one symbol per JSON document of Docs that
\* stands for that document's serialisation.
Whitespace == {" ", "\n"}

RECURSIVE LStrip(_)
LStrip(s) ==
    IF s # <<>> /\ Head(s) \in Whitespace THEN LStrip(Tail(s)) ELSE s

RECURSIVE RStrip(_)
RStrip(s) ==
    IF s # <<>> /\ s[Len(s)] \in Whitespace
    THEN RStrip(SubSeq(s, 1, Len(s) - 1)) ELSE s

\* str.strip()
Strip(s) == RStrip(LStrip(s))

\* str.startswith / str.endswith
StartsWith(s, p) == Len(s) >= Len(p) /\ SubSeq(s, 1, Len(p)) = p
EndsWith(s, p) == Len(s) >= Len(p) /\ SubSeq(s, Len(s) - Len(p) + 1, Len(s)) = p

Backtick == "backtick"
Fence == <<Backtick, Backtick, Backtick>>
FenceJson == Fence \o <<"j", "s", "o", "n">>

\* the tagged fence treated like the bare one: content[3:] in both branches
StripLeadingFenceBare(c) ==
    IF StartsWith(c, Fence) THEN SubSeq(c, 4, Len(c)) ELSE c

\* content[7:] / content[3:]
StripLeadingFence(c) ==
    IF StartsWith(c, FenceJson) THEN SubSeq(c, 8, Len(c))
    ELSE IF StartsWith(c, Fence) THEN SubSeq(c, 4, Len(c))
    ELSE c

\* content[:-3]
StripTrailingFence(c) ==
    IF EndsWith(c, Fence) THEN SubSeq(c, 1, Len(c) - 3) ELSE c

\* lines 134-145 of _parse_ai_response
CleanContent(content) ==
    Strip(StripTrailingFence(StripLeadingFence(Strip(content))))

\* ------------------------------------------------------- JSON documents
Entry(hours, priority) ==
    [title |-> JStr("Book a tutor"), description |-> JStr("Find a teacher"),
     estimated_hours |-> hours, priority |-> priority]

GoodTasks == JArr(<<JObj(Entry(JInt(2), JStr("high"))), JObj(Entry(JInt(3), JStr("low")))>>)

OneTask(entry) == JObj([reasoning |-> JStr("Start small"), tasks |-> JArr(<<JObj(entry)>>)])

\* What json.loads yields for each document symbol.
Docs ==
    [DocGood |-> JObj([reasoning |-> JStr("Start small"), tasks |-> GoodTasks]),
     DocTotal |-> JObj([reasoning |-> JStr("Start small"), tasks |-> GoodTasks,
                        total_estimated_hours |-> JInt(99)]),
     DocNoReasoning |-> JObj([tasks |-> GoodTasks]),
     DocNoTasks |-> JObj([reasoning |-> JStr("Nothing to do")]),
     DocEmptyTasks |-> JObj([reasoning |-> JStr("Nothing to do"), tasks |-> JArr(<<>>)]),
     DocNoTitle |-> OneTask([description |-> JStr("Find a teacher"),
                             estimated_hours |-> JInt(2), priority |-> JStr("high")]),
     DocNoDescription |-> OneTask([title |-> JStr("Book a tutor"),
                                   estimated_hours |-> JInt(2), priority |-> JStr("high")]),
     DocNoHours |-> OneTask([title |-> JStr("Book a tutor"),
                             description |-> JStr("Find a teacher"), priority |-> JStr("high")]),
     DocNoPriority |-> OneTask([title |-> JStr("Book a tutor"),
                                description |-> JStr("Find a teacher"),
                                estimated_hours |-> JInt(2)]),
     DocStrHours |-> OneTask(Entry(JStr("two"), JStr("high"))),
     DocBoolHours |-> OneTask(Entry(JBool(TRUE), JStr("high"))),
     DocNullHours |-> OneTask(Entry(JNull, JStr("high"))),
     DocZeroHours |-> OneTask(Entry(JInt(0), JStr("medium"))),
     DocNegHours |-> OneTask(Entry(JInt(-3), JStr("low"))),
     DocBadPriority |-> OneTask(Entry(JInt(4), JStr("urgent"))),
     DocTasksString |-> JObj([reasoning |-> JStr("Start small"), tasks |-> JStr("none")]),
     DocTaskNotObject |-> JObj([reasoning |-> JStr("Start small"),
                                tasks |-> JArr(<<JStr("Book a tutor")>>)]),
     DocArray |-> JArr(<<>>)]

DocNames == DOMAIN Docs

\* json.loads: surrounding whitespace is skipped; the text must be exactly
\* one document
JsonLoads(text) ==
    LET t == Strip(text)
    IN IF Len(t) = 1 /\ t[1] \in DocNames THEN Ret(Docs[t[1]])
       ELSE Raise("JSONDecodeError")

\* ---------------------------------------------------- _parse_ai_response
TaskFields == {"title", "description", "estimated_hours", "priority"}

\* data.get("tasks", []) on a dict
GetTasks(data) == IF "tasks" \in DOMAIN data.f THEN data.f.tasks ELSE JArr(<<>>)

\* enumerate(v): the items of a list, the characters of a string, the keys
\* of a dict (both given here as strings); anything else is not iterable
Iterate(v) ==
    CASE v.ty = "arr" -> Ret(v.items)
      [] v.ty = "str" -> Ret(IF v.s = "" THEN <<>> ELSE <<JStr("c")>>)
      [] v.ty = "obj" -> Ret(IF DOMAIN v.f = {} THEN <<>> ELSE <<JStr("k")>>)
      [] OTHER -> Raise("TypeError")

\* lines 156-163: one task dict, or the exception the four lookups raise
BuildTask(i, task_data) ==
    IF task_data.ty # "obj" THEN Raise("TypeError")
    ELSE IF ~(TaskFields \subseteq DOMAIN task_data.f) THEN Raise("KeyError")
    ELSE Ret(Task(ToString(i), task_data.f.title, task_data.f.description,
                  task_data.f.estimated_hours, task_data.f.priority))

\* sum(...) over the hours: starts at int 0; int + int and int + bool are
\* ints, int + str / None / list / dict raises TypeError
RECURSIVE SumFrom(_, _, _)
SumFrom(acc, tasks, i) ==
    IF i > Len(tasks) THEN Ret(JInt(acc))
    ELSE LET h == tasks[i].estimated_hours
         IN CASE h.ty = "int" -> SumFrom(acc + h.v, tasks, i + 1)
              [] h.ty = "bool" -> SumFrom(acc + (IF h.b THEN 1 ELSE 0), tasks, i + 1)
              [] OTHER -> Raise("TypeError")

SumHours(tasks) == SumFrom(0, tasks, 1)

\* lines 149-175 applied to the cleaned text
InterpretClean(cleaned) ==
    LET loaded == JsonLoads(cleaned)
    IN IF ~loaded.ok THEN Raise("Exception: Failed to parse AI response as JSON")
       ELSE LET data == loaded.val
            IN IF data.ty # "obj" THEN Raise("AttributeError")
               ELSE LET items == Iterate(GetTasks(data))
                    IN IF ~items.ok THEN items
                       ELSE LET built == [i \in 1..Len(items.val) |-> BuildTask(i, items.val[i])]
                            IN IF \E i \in 1..Len(built) : ~built[i].ok
                               THEN Raise(built[CHOOSE i \in 1..Len(built) :
                                              /\ ~built[i].ok
                                              /\ \A j \in 1..(i - 1) : built[j].ok].err)
                               ELSE LET tasks == [i \in 1..Len(built) |-> built[i].val]
                                        total_hours == SumHours(tasks)
                                    IN IF ~total_hours.ok THEN total_hours
                                       ELSE IF "reasoning" \notin DOMAIN data.f
                                       THEN Raise("KeyError")
                                       ELSE Ret([reasoning |-> data.f.reasoning,
                                                 tasks |-> tasks,
                                                 total_estimated_hours |-> total_hours.val])

ParseAIResponse(content) == InterpretClean(CleanContent(content))

\* ---------------------------------------------------- texts a model emits
\* A document alone, with surrounding whitespace, inside a tagged or a bare
\* fence, inside two fence layers, with only one of the fences, or after a
\* word of prose.
WrapKinds == {"plain", "padded", "json", "jsonTight", "jsonPadded", "bare",
              "double", "leadingOnly", "trailingOnly", "prose"}

Wrap(kind, d) ==
    CASE kind = "plain" -> <<d>>
      [] kind = "padded" -> <<" ", d, "\n">>
      [] kind = "json" -> FenceJson \o <<"\n", d, "\n">> \o Fence
      [] kind = "jsonTight" -> FenceJson \o <<d>> \o Fence
      [] kind = "jsonPadded" -> <<"\n">> \o FenceJson \o <<"\n", d, "\n">> \o Fence \o <<" ">>
      [] kind = "bare" -> Fence \o <<"\n", d, "\n">> \o Fence
      [] kind = "double" -> Fence \o <<"\n">> \o FenceJson \o <<"\n", d, "\n">>
                            \o Fence \o <<"\n">> \o Fence
      [] kind = "leadingOnly" -> FenceJson \o <<"\n", d>>
      [] kind = "trailingOnly" -> <<d, "\n">> \o Fence
      [] kind = "prose" -> <<"x", " ", d>>

\* the documents that are tried in every wrapping
WrappedDocs == {"DocGood", "DocTotal", "DocNoReasoning"}

Contents ==
    {Wrap("plain", d) : d \in DocNames}
    \cup {Wrap(k, d) : k \in WrapKinds, d \in WrappedDocs}
    \cup {<<>>, <<"x">>, Fence}

\* ------------------------------------------------------------ _try_model
\* What requests.post does for one attempt: it raises (connection error,
\* timeout), or returns a response with a status and a body; the body is
\* not JSON, has no "candidates", an empty list of them, a candidate
\* without content, or a candidate carrying text.
Transport == [kind |-> "transport", status |-> 0, body |-> "none", content |-> <<>>]
Http(status, body, content) ==
    [kind |-> "http", status |-> status, body |-> body, content |-> content]

Responses ==
    {Transport}
    \cup {Http(s, "text", Wrap("plain", "DocGood")) : s \in {404, 500}}
    \cup {Http(200, b, <<>>) : b \in {"notjson", "nocandidates", "emptycandidates", "nocontent"}}
    \cup {Http(200, "text", c) : c \in Contents}

TryModel(resp) ==
    IF resp.kind = "transport" THEN Raise("RequestException")
    ELSE IF resp.status = 200
    THEN CASE resp.body = "notjson" -> Raise("JSONDecodeError")
           [] resp.body \in {"nocandidates", "emptycandidates"} ->
                  Raise("Exception: No candidates in response")
           [] resp.body = "nocontent" -> Raise("KeyError")
           [] OTHER -> ParseAIResponse(resp.content)
    ELSE Raise("Exception: HTTP " \o ToString(resp.status))

\* --------------------------------------------------------- break_down_goal
PossibleModels == <<"gemini-2.0-flash", "gemini-2.0-flash-001",
                    "gemini-2.0-flash-lite", "gemini-2.0-flash-lite-001",
                    "gemini-pro-latest", "gemini-2.5-flash", "gemini-2.5-pro">>

Goals == {"Learn Spanish", "Run 5k"}

NoResponse == [kind |-> "none", status |-> 0, body |-> "none", content |-> <<>>]
Pending == Raise("pending")

\* a test that is never true, so a success does not end the loop
TruthyNever(result) == FALSE

\* bool(result) for the dict _parse_ai_response returns: it has three keys
Truthy(result) == DOMAIN result # {}

Init ==
    /\ pc = "idle"
    /\ goal = ""
    /\ timeframe = NoTimeframe
    /\ idx = 1
    /\ attempted = <<>>
    /\ lastResponse = NoResponse
    /\ lastOutcome = Pending
    /\ budgetHours = Pending
    /\ outcome = Pending
    /\ fallbackCalls = 0

\* the caller invokes break_down_goal(goal, timeframe)
Call ==
    /\ pc = "idle"
    /\ \E g \in Goals, tf \in CallTimeframes :
          /\ goal' = g
          /\ timeframe' = tf
    /\ pc' = "loop"
    /\ UNCHANGED <<idx, attempted, lastResponse, lastOutcome, budgetHours, outcome,
                   fallbackCalls>>

\* one iteration of the for loop (lines 56-64)
TryNext ==
    /\ pc = "loop"
    /\ idx <= Len(PossibleModels)
    /\ \E resp \in Responses :
          LET r == TryModel(resp)
          IN /\ lastResponse' = resp
             /\ lastOutcome' = r
             /\ attempted' = Append(attempted, [model |-> PossibleModels[idx], ok |-> r.ok])
             /\ IF r.ok /\ Truthy(r.val)
                THEN /\ outcome' = r
                     /\ pc' = "done"
                     /\ idx' = idx
                ELSE /\ outcome' = outcome
                     /\ pc' = "loop"
                     /\ idx' = idx + 1
    /\ UNCHANGED <<goal, timeframe, budgetHours, fallbackCalls>>

\* the loop is exhausted (lines 66-68); budgetHours is what the call of
\* _parse_timeframe in _create_smart_tasks (line 179) evaluates to
Fallback ==
    /\ pc = "loop"
    /\ idx > Len(PossibleModels)
    /\ budgetHours' = ParseTimeframe(timeframe)
    /\ LET r == CreateSmartTasks(goal, timeframe)
       IN /\ outcome' = r
          /\ pc' = IF r.ok THEN "done" ELSE "raised"
    /\ fallbackCalls' = fallbackCalls + 1
    /\ UNCHANGED <<goal, timeframe, idx, attempted, lastResponse, lastOutcome>>

Next == Call \/ TryNext \/ Fallback

Spec == Init /\ [][Next]_vars

\* ------------------------------------ _create_smart_tasks called directly
\* The fallback synthesizer and the timeframe heuristic are pure: here they
\* are applied to every goal and every timeframe over the full vocabulary.
SynthInit ==
    /\ pc = "synth"
    /\ goal \in Goals
    /\ timeframe \in Timeframes
    /\ idx = 1
    /\ attempted = <<>>
    /\ lastResponse = NoResponse
    /\ lastOutcome = Pending
    /\ budgetHours = Pending
    /\ outcome = Pending
    /\ fallbackCalls = 0

Synthesize ==
    /\ pc = "synth"
    /\ budgetHours' = ParseTimeframe(timeframe)
    /\ LET r == CreateSmartTasks(goal, timeframe)
       IN /\ outcome' = r
          /\ pc' = IF r.ok THEN "done" ELSE "raised"
    /\ UNCHANGED <<goal, timeframe, idx, attempted, lastResponse, lastOutcome, fallbackCalls>>

SynthNext == Synthesize

SynthSpec == SynthInit /\ [][SynthNext]_vars

\* ================================================================ claims
Returned == pc = "done"
Finished == pc \in {"done", "raised"}
AllFailed == Len(attempted) = Len(PossibleModels) /\ \A i \in 1..Len(attempted) : ~attempted[i].ok
TextResponse == lastResponse.kind = "http" /\ lastResponse.status = 200 /\ lastResponse.body = "text"

\* the integer an hours value counts for in Python's sum
HoursValue(h) ==
    CASE h.ty = "int" -> h.v
      [] h.ty = "bool" -> IF h.b THEN 1 ELSE 0
      [] OTHER -> 0

RECURSIVE TaskHoursSum(_)
TaskHoursSum(tasks) ==
    IF tasks = <<>> THEN 0
    ELSE HoursValue(Head(tasks).estimated_hours) + TaskHoursSum(Tail(tasks))

IsBreakdownResult(r) == DOMAIN r = {"reasoning", "tasks", "total_estimated_hours"}

\* C1: break_down_goal always ends by returning a BreakdownResult; it never
\* raises to its caller, whatever the goal, the timeframe and the outcomes
\* of the attempts.
C1_NeverRaises == Finished => (outcome.ok /\ IsBreakdownResult(outcome.val))

\* C2: in every returned result total_estimated_hours is the sum of the
\* tasks' estimated_hours, on the interpreter path and on the fallback path.
C2_TotalIsSum ==
    Returned => outcome.val.total_estimated_hours = JInt(TaskHoursSum(outcome.val.tasks))

\* C3: every returned result has at least one task; the fallback has
\* exactly three.
C3_TasksNonEmpty ==
    Returned => /\ Len(outcome.val.tasks) >= 1
                /\ fallbackCalls = 1 => Len(outcome.val.tasks) = 3

\* C4: candidates are attempted in list order, each at most once, and the
\* first success ends the call: a successful attempt is the last one made,
\* its interpreted result is what is returned, and the fallback is not run.
C4_FirstSuccessWins ==
    /\ Len(attempted) <= Len(PossibleModels)
    /\ \A i \in 1..Len(attempted) : attempted[i].model = PossibleModels[i]
    /\ \A k \in 1..Len(attempted) :
          attempted[k].ok =>
             /\ k = Len(attempted)
             /\ Returned
             /\ lastOutcome = TryModel(lastResponse)
             /\ outcome = lastOutcome
             /\ fallbackCalls = 0
    /\ Returned /\ fallbackCalls = 0 => attempted[Len(attempted)].ok

\* the second candidate succeeds after the first failed
C4_Witness ==
    /\ Returned
    /\ Len(attempted) = 2
    /\ ~attempted[1].ok
    /\ attempted[2].ok
    /\ outcome.ok

\* C5: when all attempts fail there was one attempt per candidate and the
\* call returns the three fallback tasks with hours max(1, B \div 4),
\* max(1, B \div 2), max(1, B \div 4) for the budget B of the timeframe,
\* priorities high / medium / medium and the fallback reasoning.
C5_FallbackResult ==
    (Finished /\ fallbackCalls = 1) =>
        /\ AllFailed
        /\ outcome.ok
        /\ outcome = CreateSmartTasks(goal, timeframe)
        /\ LET B == ParseTimeframe(timeframe).val
               t == outcome.val.tasks
           IN /\ Len(t) = 3
              /\ t[1].title = JStr("Research and plan " \o goal)
              /\ t[2].title = JStr("Practice core skills for " \o goal)
              /\ t[3].title = JStr("Apply and refine " \o goal)
              /\ t[1].estimated_hours = JInt(Max(1, B \div 4))
              /\ t[2].estimated_hours = JInt(Max(1, B \div 2))
              /\ t[3].estimated_hours = JInt(Max(1, B \div 4))
              /\ <<t[1].priority, t[2].priority, t[3].priority>>
                   = <<JStr("high"), JStr("medium"), JStr("medium")>>
              /\ outcome.val.reasoning =
                   JStr("Smart task breakdown for '" \o goal \o "' (Gemini API unavailable)")

\* C6: every task of every returned result has a positive integer
\* estimated_hours and a priority among high, medium, low.
C6_TaskSchema ==
    Returned =>
        \A i \in 1..Len(outcome.val.tasks) :
            LET t == outcome.val.tasks[i]
            IN /\ t.estimated_hours.ty = "int"
               /\ t.estimated_hours.v >= 1
               /\ t.priority \in {JStr("high"), JStr("medium"), JStr("low")}

\* ------------------------------------------------ the timeframe rule table
Parsed == budgetHours # Pending

\* the quantity tokens: non-negative integers written in decimal digits
QuantityValue == [q \in {"0", "2", "90"} |-> IF q = "0" THEN 0 ELSE IF q = "2" THEN 2 ELSE 90]

\* the unit keyword a token contains once lower-cased, "" if none
UnitOf == [tok \in Tokens |->
             CASE tok = "Minutes" -> "minute"
               [] tok = "hours" -> "hour"
               [] tok = "days" -> "day"
               [] tok = "weeks" -> "week"
               [] tok = "month" -> "month"
               [] OTHER -> ""]

Units(toks) == {UnitOf[toks[i]] : i \in 1..Len(toks)}

FirstQuantity(toks) ==
    IF \E i \in 1..Len(toks) : toks[i] \in DOMAIN QuantityValue
    THEN QuantityValue[toks[CHOOSE i \in 1..Len(toks) :
                               /\ toks[i] \in DOMAIN QuantityValue
                               /\ \A j \in 1..(i - 1) : toks[j] \notin DOMAIN QuantityValue]]
    ELSE 1

RuleTable(tf) ==
    IF ~tf.present \/ tf.toks = <<>> THEN 8
    ELSE LET q == FirstQuantity(tf.toks)
             u == Units(tf.toks)
         IN CASE "minute" \in u -> Max(1, q \div 60)
              [] "minute" \notin u /\ "hour" \in u -> q
              [] {"minute", "hour"} \cap u = {} /\ "day" \in u -> q * 8
              [] {"minute", "hour", "day"} \cap u = {} /\ "week" \in u -> q * 40
              [] {"minute", "hour", "day", "week"} \cap u = {} /\ "month" \in u -> q * 160
              [] OTHER -> 8

\* every quantity token of the text is a decimal integer
DecimalQuantities(tf) == \A i \in 1..Len(tf.toks) : tf.toks[i] # "²"

\* C7: _parse_timeframe returns an integer >= 1 for the absent and the empty
\* timeframe and for every text whose quantity tokens are non-negative
\* decimal integers, 0 included.
C7_PositiveHours ==
    (Parsed /\ DecimalQuantities(timeframe)) =>
        /\ budgetHours.ok
        /\ budgetHours.val >= 1

\* C8: _parse_timeframe returns the value of the rule table: 8 for the
\* absent or empty timeframe, otherwise the first quantity token (1 if none)
\* scaled by the first unit, in the order minute, hour, day, week, month,
\* that occurs anywhere in the text, and 8 when no unit occurs.
C8_RuleTable ==
    Parsed => budgetHours = Ret(RuleTable(timeframe))

\* ----------------------------------------------------------- fenced output
FencedKinds == {"json", "jsonTight", "jsonPadded", "bare"}

\* C9: a document inside one fence (tagged or bare, with optional
\* whitespace around) is interpreted exactly as the document alone, and of
\* two fence layers only the outer one is removed, so the text left over is
\* still fenced and is rejected.
C9_FenceTransparent ==
    TextResponse =>
        \A d \in DocNames :
            /\ \A k \in FencedKinds :
                  lastResponse.content = Wrap(k, d) =>
                     /\ lastOutcome = ParseAIResponse(<<d>>)
                     /\ CleanContent(lastResponse.content) = <<d>>
            /\ lastResponse.content = Wrap("double", d) =>
                  /\ CleanContent(lastResponse.content) = Wrap("json", d)
                  /\ ~lastOutcome.ok

\* a valid document in a tagged fence with whitespace around was accepted
C9_Witness ==
    /\ TextResponse
    /\ lastResponse.content = Wrap("jsonPadded", "DocGood")
    /\ Returned
    /\ outcome = ParseAIResponse(<<"DocGood">>)
    /\ outcome.ok
    /\ Len(outcome.val.tasks) = 2

\* ------------------------------------------------------ rejected payloads
IsDocument(cleaned) == Len(cleaned) = 1 /\ cleaned[1] \in DocNames

\* the task entries of a document whose "tasks" is a list
Entries(data) ==
    IF data.ty = "obj" /\ "tasks" \in DOMAIN data.f /\ data.f.tasks.ty = "arr"
    THEN data.f.tasks.items ELSE <<>>

LacksField(entry) == entry.ty = "obj" /\ ~(TaskFields \subseteq DOMAIN entry.f)

NonNumericHours(entry) ==
    /\ entry.ty = "obj"
    /\ "estimated_hours" \in DOMAIN entry.f
    /\ entry.f.estimated_hours.ty # "int"

BadPayload(cleaned) ==
    \/ ~IsDocument(cleaned)
    \/ /\ IsDocument(cleaned)
       /\ LET data == Docs[cleaned[1]]
          IN \/ data.ty = "obj" /\ "reasoning" \notin DOMAIN data.f
             \/ \E i \in 1..Len(Entries(data)) :
                   LacksField(Entries(data)[i]) \/ NonNumericHours(Entries(data)[i])

\* C10: a payload whose cleaned text is not JSON, lacks "reasoning", has a
\* task entry without one of the four fields or has non-numeric hours is
\* never returned: the attempt fails and the loop moves to the next
\* candidate.
C10_BadPayloadRejected ==
    (TextResponse /\ BadPayload(CleanContent(lastResponse.content))) =>
        /\ ~lastOutcome.ok
        /\ ~attempted[Len(attempted)].ok
        /\ idx = Len(attempted) + 1
        /\ (Returned => fallbackCalls = 1)

\* --------------------------------------------------------- extent of the
\* failures above.  Each of these holds (the first four of Spec, the last
\* two of SynthSpec).

\* No call raises when every digit token of the timeframe is decimal.
RaisesOnlyOnNonDecimalDigit ==
    (Finished /\ DecimalQuantities(timeframe)) => (outcome.ok /\ IsBreakdownResult(outcome.val))

\* On the interpreter path the total is the sum of the tasks' hours.
InterpreterTotalIsSum ==
    (Returned /\ fallbackCalls = 0) =>
        outcome.val.total_estimated_hours = JInt(TaskHoursSum(outcome.val.tasks))

\* When the fallback returns, it returns the three tasks of C5.
FallbackResultWhenDecimal ==
    DecimalQuantities(timeframe) => C5_FallbackResult

\* Every payload of C10 other than the one with boolean hours is rejected.
RejectedExceptBooleanHours ==
    CleanContent(lastResponse.content) # <<"DocBoolHours">> => C10_BadPayloadRejected

\* With decimal quantities the heuristic returns the rule table's value.
RuleTableWhenDecimal ==
    (Parsed /\ DecimalQuantities(timeframe)) => budgetHours = Ret(RuleTable(timeframe))

\* The examples: "2 weeks", "90 minutes" (here "90 Minutes"), None, "forever".
RuleTableExamples ==
    Parsed =>
        /\ timeframe = Text(<<"2", "weeks">>) => budgetHours = Ret(80)
        /\ timeframe = Text(<<"90", "Minutes">>) => budgetHours = Ret(1)
        /\ timeframe = NoTimeframe => budgetHours = Ret(8)
        /\ timeframe = Text(<<"forever">>) => budgetHours = Ret(8)

====
